---- MODULE Spec2Model ----
(***************************************************************************)
(* ser-hex: capture of the reads and seeks a parser performs on a stream,  *)
(* attributed to a stack of named spans, and the finalization of that      *)
(* record into a Trace (data, start_index, root).                          *)
(*                                                                         *)
(* One behaviour of Spec is one capture session: a stream is wrapped by    *)
(* TraceStream (mirror or incremental constructor) or by TracerReader, the *)
(* instrumented code creates / enters / exits spans and reads / seeks, the *)
(* TraceStream and the span handles are dropped, and the Trace is saved    *)
(* when the last owner of CounterSubscriberInner goes away.                *)
(***************************************************************************)
EXTENDS Integers, Sequences, FiniteSets, TLC

\* ---------------------------------------------------------------- bounds
MaxStreamLen == 2   \* length of the underlying stream
MaxRead == 1        \* largest byte count one read returns
MaxLog == 3         \* recorded events (enter / read / seek) per session
MaxSpans == 2       \* span ids allocated per session (the root included)
MaxThreads == 2     \* threads that enter spans of one session

\* the name in the callsite metadata of the span that gets the given id
CallsiteName(id) == IF id % 2 = 0 THEN "read_stuff" ELSE "read_nested_stuff"
Errors == {"EIO"}
Kinds == {"mirror", "incremental", "tracer"}
Stacks == {<<10>>, <<10, 20>>}

None == 0
NoSpan == [name |-> "", actions |-> <<>>]
NoTrace == [data |-> <<>>, start_index |-> 0, root |-> [t |-> "None", v |-> NoSpan]]

VARIABLES
    kind,           \* which wrapper captures the session
    stream,         \* contents of the underlying stream
    spos,           \* position of the underlying stream
    start_index,    \* CounterSubscriberInner.start_index
    data,           \* CounterSubscriberInner.data: the Vec of the Cursor
    dpos,           \* CounterSubscriberInner.data: the position of the Cursor
    last_id,        \* CounterSubscriberInner.last_id
    root_span,      \* CounterSubscriberInner.root_span (None = 0)
    spans,          \* CounterSubscriberInner.spans: id -> ReadSpan<Id>
    stack,          \* CounterSubscriberInner.stack
    ts,             \* the TraceStream: "unbuilt", "alive" or "dropped"
    live,           \* ids of the Span handles the instrumented code holds
    guards,         \* the entered guards, oldest first
    status,         \* "running", "failed" (a panic) or "finalized"
    trace,          \* the Trace that save() wrote
    saves,          \* how many times save() wrote a Trace
    finalizations,  \* how many times Drop for CounterSubscriberInner ran
    tracer_data,    \* Tracer.data
    ops,            \* Tracer.ops
    log,            \* history: the successful enter / read / seek events
    roots,          \* history: how many times a span registered as root
    lifo,           \* history: every guard so far was released newest first
    threads,        \* how many threads hold Span handles of the session
    wrap_pos,       \* history: the position of the underlying stream when it was wrapped
    tlifo,          \* history: every guard so far was the newest of its thread when released
    made,           \* history: the name each id was created with
    res,            \* what the underlying stream returned, if this step was a read / seek
    ret,            \* what the wrapper then returned to its caller
    pc,             \* position of the read_stuff caller in its body ("" outside it)
    tree,           \* a Trace's root, as handed to a consumer
    tui,            \* TraceTree.root that the TUI built from tree
    full,           \* the FullTreeSpan that the viewer built from tree
    path,           \* a Path: its bytes
    pairs,          \* the (max, n) pairs pushed on path and not popped
    decoded,        \* what split_next returned for path, pair by pair
    samples,        \* Tracer.ops: the stack of each sample, as symbol addresses
    retained,       \* the frames of each sample that Tracer::trace inserts
    hover,          \* the byte the viewer's pointer is on and the records found for it
    rendered        \* the line the TUI rendered last, or the panic of rendering it

capture == <<kind, stream, spos, start_index, data, dpos, last_id, root_span, spans,
             stack, ts, live, guards, status, trace, saves, finalizations,
             tracer_data, ops, log, roots, lifo, threads, wrap_pos, tlifo, made, res, ret>>
pure == <<tree, tui, full, path, pairs, decoded, samples, retained, hover, rendered>>
offline == <<pc, pure>>
vars == <<capture, offline>>

\* ------------------------------------------------------------- helpers
Min(a, b) == IF a < b THEN a ELSE b
Last(s) == s[Len(s)]
Front(s) == SubSeq(s, 1, Len(s) - 1)
Zeros(n) == [i \in 1..n |-> 0]
StreamOf(len) == [i \in 1..len |-> i]

Ok(op, v) == [op |-> op, ok |-> TRUE, val |-> v, err |-> ""]
Err(op, e) == [op |-> op, ok |-> FALSE, val |-> 0, err |-> e]
NoCall == [op |-> "", ok |-> TRUE, val |-> 0, err |-> ""]

Read(n) == [t |-> "Read", v |-> n]
Seek(o) == [t |-> "Seek", v |-> o]
SpanAct(s) == [t |-> "Span", v |-> s]
ReadSpan_new(name) == [name |-> name, actions |-> <<>>]

\* Cursor<Vec<u8>>::write_all at position pos: a position past the end is
\* zero-filled first; the bytes overwrite and then extend the Vec.  An empty
\* write past the end pads or not depending on the standard library (pad).
vec_write(vec, pos, bytes, pad) ==
    LET padded == IF pos > Len(vec) /\ (bytes # <<>> \/ pad)
                  THEN vec \o Zeros(pos - Len(vec)) ELSE vec
    IN IF bytes = <<>> THEN padded
       ELSE SubSeq(padded, 1, pos) \o bytes
            \o SubSeq(padded, pos + Len(bytes) + 1, Len(padded))

\* Result::inspect: the closure runs on Ok only, the Result is handed on as is.
inspect(result) == result

PushAction(sp, id, a) == [sp EXCEPT ![id].actions = Append(@, a)]

\* -------------------------------------------------------- TreeSpan::into_tree
RECURSIVE into_tree(_, _), into_tree_actions(_, _, _)
into_tree_actions(acts, i, acc) ==
    IF i > Len(acts) \/ ~acc.ok THEN acc
    ELSE LET a == acts[i] IN
         IF a.t = "Span"
         THEN LET r == into_tree(a.v, acc.spans) IN
              into_tree_actions(acts, i + 1,
                  [ok |-> r.ok, acts |-> Append(acc.acts, SpanAct(r.tree)),
                   spans |-> r.spans])
         ELSE into_tree_actions(acts, i + 1,
                  [acc EXCEPT !.acts = Append(@, a)])

into_tree(id, sp) ==
    IF id \notin DOMAIN sp
    THEN [ok |-> FALSE, tree |-> NoSpan, spans |-> sp]
    ELSE LET read_span == sp[id]
             rest == [k \in DOMAIN sp \ {id} |-> sp[k]]
             r == into_tree_actions(read_span.actions, 1,
                      [ok |-> TRUE, acts |-> <<>>, spans |-> rest])
         IN [ok |-> r.ok,
             tree |-> [name |-> read_span.name, actions |-> r.acts],
             spans |-> r.spans]

\* ------------------------------------------------------------------- Init
\* CounterSubscriberInner::new over the Cursor that build_mirror made (mirror)
\* or over an empty Cursor (incremental); Tracer::new for a TracerReader.
\* a faulty build_mirror: the mirror's cursor is left at the start
build_mirror_rewound(s, pos) == [vec |-> s, pos |-> 0]

build_mirror(s, pos) == [vec |-> s, pos |-> pos]

\* no tree, path or samples are being processed
NoInput ==
    /\ tree = NoSpan /\ tui = <<>> /\ full = <<>>
    /\ path = <<>> /\ pairs = <<>> /\ decoded = <<>>
    /\ samples = <<>> /\ retained = <<>>
    /\ hover = <<>> /\ rendered = <<>>

\* the fields of a session over the stream s, no Trace written
SessionOver(s) ==
    /\ kind \in Kinds
    /\ stream = s
    /\ spos \in 0..Len(stream)
    /\ wrap_pos = spos
    /\ LET cursor == IF kind = "mirror" THEN build_mirror(stream, spos)
                     ELSE [vec |-> <<>>, pos |-> 0]
       IN /\ data = cursor.vec
          /\ dpos = cursor.pos
          /\ start_index = cursor.pos
    /\ last_id = 0
    /\ root_span = None
    /\ spans = <<>>
    /\ stack = <<>>
    /\ ts = "unbuilt"
    /\ live = {}
    /\ guards = <<>>
    /\ status = "running"
    /\ saves = 0
    /\ finalizations = 0
    /\ tracer_data = <<>>
    /\ ops = <<>>
    /\ log = <<>>
    /\ roots = 0
    /\ lifo = TRUE
    /\ tlifo = TRUE
    /\ made = <<>>
    /\ res = NoCall
    /\ ret = NoCall
    /\ pc = ""

\* the session over the stream s before TraceStream::new_internal has run
ConstructedOver(s) == SessionOver(s) /\ trace = NoTrace

Constructed == ConstructedOver(StreamOf(MaxStreamLen))

\* the instrumented code runs in the thread that holds the TraceStream
Init == Constructed /\ NoInput /\ threads = 1

IsEngine == kind \in {"mirror", "incremental"}
Running == status = "running"
StackNames == [i \in 1..Len(stack) |-> made[stack[i]]]
LogEntry(k, id, name, n, bytes) ==
    [k |-> k, id |-> id, name |-> name, n |-> n, bytes |-> bytes, ctx |-> StackNames]

\* The fields of CounterSubscriberInner as one value; ok is FALSE once an
\* unwrap or an assert_eq has panicked.
Eng == [start_index |-> start_index, data |-> data, dpos |-> dpos,
        last_id |-> last_id, root_span |-> root_span, spans |-> spans,
        stack |-> stack, ok |-> TRUE]

\* The next value of every field of CounterSubscriberInner.  A panic (e.ok
\* FALSE) is raised while the lock is held and poisons the Mutex, so every
\* later handler panics in lock().unwrap(): the actions set status to
\* "failed" and a behaviour is followed up to its first panic only.
SetEngine(e) ==
    /\ start_index' = e.start_index
    /\ data' = e.data
    /\ dpos' = e.dpos
    /\ last_id' = e.last_id
    /\ root_span' = e.root_span
    /\ spans' = e.spans
    /\ stack' = e.stack

\* ------------------------------------------------- CounterSubscriber handlers
\* a faulty new_span: the counter is not advanced, the last id is handed out again
new_span_reuse(e, name) ==
    LET id == IF e.last_id = 0 THEN 1 ELSE e.last_id IN
    [e EXCEPT !.last_id = id,
              !.spans = [k \in DOMAIN e.spans \cup {id} |->
                            IF k = id THEN ReadSpan_new(name) ELSE e.spans[k]]]

new_span(e, name) ==
    LET id == e.last_id + 1 IN
    [e EXCEPT !.last_id = id,
              !.spans = [k \in DOMAIN e.spans \cup {id} |->
                            IF k = id THEN ReadSpan_new(name) ELSE e.spans[k]]]

\* a faulty enter: the child is put in front of the parent's actions
enter_front(e, span) ==
    IF e.stack # <<>>
    THEN [e EXCEPT !.spans[Last(e.stack)].actions = <<SpanAct(span)>> \o @,
                   !.stack = Append(@, span)]
    ELSE [e EXCEPT !.root_span = span, !.stack = Append(@, span)]

\* a faulty enter: the span takes the place of the current one on the stack
enter_replace(e, span) ==
    IF e.stack # <<>>
    THEN [e EXCEPT !.spans = PushAction(@, Last(e.stack), SpanAct(span)),
                   !.stack = Append(Front(@), span)]
    ELSE [e EXCEPT !.root_span = span, !.stack = Append(@, span)]

enter(e, span) ==
    IF e.stack # <<>>
    THEN LET current == Last(e.stack) IN
         IF current \notin DOMAIN e.spans THEN [e EXCEPT !.ok = FALSE]
         ELSE [e EXCEPT !.spans = PushAction(@, current, SpanAct(span)),
                        !.stack = Append(@, span)]
    ELSE [e EXCEPT !.root_span = span, !.stack = Append(@, span)]

\* a faulty exit: the popped id is not compared with the span exited
exit_unchecked(e, span) ==
    IF e.stack = <<>> THEN [e EXCEPT !.ok = FALSE]
    ELSE [e EXCEPT !.stack = Front(@)]

exit(e, span) ==
    IF e.stack = <<>> THEN [e EXCEPT !.ok = FALSE]
    ELSE [e EXCEPT !.stack = Front(@), !.ok = (Last(e.stack) = span)]

\* a faulty read_action: the action is recorded, the bytes are not written
read_action_no_write(e, buf, pad) ==
    IF e.stack = <<>> THEN [e EXCEPT !.ok = FALSE]
    ELSE [e EXCEPT !.spans = PushAction(@, Last(e.stack), Read(Len(buf)))]

\* a faulty read_action: the bytes are appended at the end of data, not at the cursor
read_action_append(e, buf, pad) ==
    IF e.stack = <<>> THEN [e EXCEPT !.ok = FALSE]
    ELSE [e EXCEPT !.data = @ \o buf,
                   !.dpos = @ + Len(buf),
                   !.spans = PushAction(@, Last(e.stack), Read(Len(buf)))]

read_action(e, buf, pad) ==
    IF e.stack = <<>> THEN [e EXCEPT !.ok = FALSE]
    ELSE LET current == Last(e.stack) IN
         IF current \notin DOMAIN e.spans THEN [e EXCEPT !.ok = FALSE]
         ELSE [e EXCEPT !.data = vec_write(@, e.dpos, buf, pad),
                        !.dpos = @ + Len(buf),
                        !.spans = PushAction(@, current, Read(Len(buf)))]

\* a faulty seek_action: the Seek is recorded in the root span, not the current one
seek_action_root(e, to) ==
    IF e.stack = <<>> THEN [e EXCEPT !.ok = FALSE]
    ELSE [e EXCEPT !.dpos = to,
                   !.spans = PushAction(@, e.root_span, Seek(to))]

seek_action(e, to) ==
    IF e.stack = <<>> THEN [e EXCEPT !.ok = FALSE]
    ELSE LET current == Last(e.stack) IN
         IF current \notin DOMAIN e.spans THEN [e EXCEPT !.ok = FALSE]
         ELSE [e EXCEPT !.dpos = to,
                        !.spans = PushAction(@, current, Seek(to))]

\* Drop for CounterSubscriberInner: resolve the tree from the root id, take the
\* data out of the Cursor and save the Trace; io_ok is whether fs::write works.
drop(e, io_ok) ==
    IF e.root_span = None
    THEN [e |-> [e EXCEPT !.ok = FALSE], trace |-> NoTrace, saved |-> FALSE]
    ELSE LET r == into_tree(e.root_span, e.spans) IN
         IF ~r.ok
         THEN [e |-> [e EXCEPT !.spans = r.spans, !.ok = FALSE],
               trace |-> NoTrace, saved |-> FALSE]
         ELSE [e |-> [e EXCEPT !.spans = r.spans, !.data = <<>>, !.dpos = 0,
                               !.ok = io_ok],
               trace |-> [data |-> e.data, start_index |-> e.start_index,
                          root |-> SpanAct(r.tree)],
               saved |-> io_ok]

\* The owners of the Arc: the TraceStream's subscriber field, the dispatcher
\* default, and every Span handle (the root Span is owned by scope_guard).
Handles(t, l) ==
    (CASE t = "unbuilt" -> 2 [] t = "alive" -> 3 [] OTHER -> 0) + Cardinality(l)

\* a faulty Release: the Trace is written as soon as the TraceStream is gone
Release_early(e, t, l, io_ok) ==
    IF e.ok /\ t = "dropped"
    THEN LET d == drop(e, io_ok) IN
         /\ SetEngine(d.e)
         /\ status' = IF d.e.ok THEN "finalized" ELSE "failed"
         /\ finalizations' = finalizations + 1
         /\ trace' = IF d.saved THEN d.trace ELSE trace
         /\ saves' = IF d.saved THEN saves + 1 ELSE saves
    ELSE /\ SetEngine(e)
         /\ status' = IF e.ok THEN status ELSE "failed"
         /\ UNCHANGED <<finalizations, trace, saves>>

\* Releasing owners: when none is left the Arc drops CounterSubscriberInner.
Release(e, t, l, io_ok) ==
    IF e.ok /\ Handles(t, l) = 0
    THEN LET d == drop(e, io_ok) IN
         /\ SetEngine(d.e)
         /\ status' = IF d.e.ok THEN "finalized" ELSE "failed"
         /\ finalizations' = finalizations + 1
         /\ trace' = IF d.saved THEN d.trace ELSE trace
         /\ saves' = IF d.saved THEN saves + 1 ELSE saves
    ELSE /\ SetEngine(e)
         /\ status' = IF e.ok THEN status ELSE "failed"
         /\ UNCHANGED <<finalizations, trace, saves>>

\* guard i is the one its thread entered last
NewestOfThread(g, i) == \A j \in (i + 1)..Len(g) : g[j].thread # g[i].thread

Remove(s, i) == SubSeq(s, 1, i - 1) \o SubSeq(s, i + 1, Len(s))

\* ---------------------------------------------------------------- actions
\* TraceStream::new_internal: info_span!("root").entered()
NewInternal ==
    /\ IsEngine /\ Running /\ ts = "unbuilt"
    /\ LET e1 == new_span(Eng, "root")
           e2 == enter(e1, e1.last_id)
       IN /\ SetEngine(e2)
          /\ status' = IF e2.ok THEN status ELSE "failed"
          /\ guards' = <<[id |-> e1.last_id, before |-> stack, owner |-> "stream", thread |-> 1]>>
          /\ log' = Append(log, LogEntry("enter", e1.last_id, "root", 0, <<>>))
          /\ roots' = roots + 1
    /\ ts' = "alive"
    /\ res' = NoCall /\ ret' = NoCall
    /\ made' = Append(made, "root")
    /\ UNCHANGED <<offline, threads, wrap_pos, kind, stream, spos, live, trace, saves, finalizations,
                   tracer_data, ops, lifo, tlifo>>

\* tracing::span!: Subscriber::new_span, the handle is kept by the caller
NewSpan ==
    /\ IsEngine /\ Running /\ ts = "alive"
    /\ last_id < MaxSpans
    /\ LET name == CallsiteName(last_id + 1)
           e1 == new_span(Eng, name)
       IN /\ SetEngine(e1)
          /\ live' = live \cup {e1.last_id}
          /\ made' = Append(made, name)
    /\ res' = NoCall /\ ret' = NoCall
    /\ UNCHANGED <<offline, threads, wrap_pos, kind, stream, spos, ts, guards, status, trace, saves,
                   finalizations, tracer_data, ops, log, roots, lifo, tlifo>>

\* Span::enter on a handle the caller holds: Subscriber::enter
Enter(id) ==
    /\ IsEngine /\ Running /\ id \in live
    /\ Len(log) < MaxLog
    /\ LET e1 == enter(Eng, id)
       IN /\ SetEngine(e1)
          /\ status' = IF e1.ok THEN status ELSE "failed"
    /\ \E t \in 1..threads :
         guards' = Append(guards, [id |-> id, before |-> stack, owner |-> "user", thread |-> t])
    /\ log' = Append(log, LogEntry("enter", id, made[id], 0, <<>>))
    /\ roots' = IF stack = <<>> THEN roots + 1 ELSE roots
    /\ res' = NoCall /\ ret' = NoCall
    /\ UNCHANGED <<offline, threads, wrap_pos, kind, stream, spos, ts, live, trace, saves, finalizations,
                   tracer_data, ops, lifo, tlifo, made>>

\* release of the i-th entered guard: Subscriber::exit
Exit(i) ==
    /\ IsEngine /\ Running
    /\ i \in 1..Len(guards) /\ guards[i].owner = "user"
    /\ LET e1 == exit(Eng, guards[i].id)
       IN /\ SetEngine(e1)
          /\ status' = IF e1.ok THEN status ELSE "failed"
    /\ guards' = Remove(guards, i)
    /\ lifo' = (lifo /\ i = Len(guards))
    /\ tlifo' = (tlifo /\ NewestOfThread(guards, i))
    /\ res' = NoCall /\ ret' = NoCall
    /\ UNCHANGED <<offline, threads, wrap_pos, kind, stream, spos, ts, live, trace, saves, finalizations,
                   tracer_data, ops, log, roots, made>>

\* the caller drops a Span handle that has no guard left: Subscriber::try_close,
\* and the handle's clone of the dispatcher goes away
DropSpan(id) ==
    /\ IsEngine /\ Running /\ id \in live
    /\ \A i \in 1..Len(guards) : guards[i].id # id
    /\ \E io_ok \in BOOLEAN : Release(Eng, ts, live \ {id}, io_ok)
    /\ live' = live \ {id}
    /\ res' = NoCall /\ ret' = NoCall
    /\ UNCHANGED <<offline, threads, wrap_pos, kind, stream, spos, ts, guards, tracer_data, ops, log, roots, lifo, tlifo, made>>

\* drop of the TraceStream: scope_guard exits the root span, guard restores the
\* previous default subscriber, subscriber releases its Arc
DropStream ==
    /\ IsEngine /\ Running /\ ts = "alive"
    /\ \E i \in 1..Len(guards) :
         /\ guards[i].owner = "stream"
         /\ \E io_ok \in BOOLEAN : Release(exit(Eng, guards[i].id), "dropped", live, io_ok)
         /\ guards' = Remove(guards, i)
         /\ lifo' = (lifo /\ i = Len(guards))
         /\ tlifo' = (tlifo /\ NewestOfThread(guards, i))
    /\ ts' = "dropped"
    /\ res' = NoCall /\ ret' = NoCall
    /\ UNCHANGED <<offline, threads, wrap_pos, kind, stream, spos, live, tracer_data, ops, log, roots, made>>

\* impl Read for TraceStream, the underlying read returns Ok(k)
ReadOk(k) ==
    /\ IsEngine /\ Running /\ ts = "alive"
    /\ Len(log) < MaxLog
    /\ k \in 0..Min(MaxRead, IF spos < Len(stream) THEN Len(stream) - spos ELSE 0)
    /\ LET buf == SubSeq(stream, spos + 1, spos + k)
           r == Ok("read", k)
       IN /\ \E pad \in BOOLEAN :
                LET e1 == read_action(Eng, buf, pad)
                IN /\ SetEngine(e1)
                   /\ status' = IF e1.ok THEN status ELSE "failed"
          /\ log' = Append(log, LogEntry("read", Last(stack), "", k, buf))
          /\ res' = r
          /\ ret' = inspect(r)
    /\ spos' = spos + k
    /\ UNCHANGED <<offline, threads, wrap_pos, kind, stream, ts, live, guards, trace, saves, finalizations,
                   tracer_data, ops, roots, lifo, tlifo, made>>

\* a faulty ReadErr: a failed read is recorded as Read(0)
ReadErr_recorded(e) ==
    /\ IsEngine /\ Running /\ ts = "alive"
    /\ LET r == Err("read", e) IN res' = r /\ ret' = inspect(r)
    /\ spans' = PushAction(spans, Last(stack), Read(0))
    /\ UNCHANGED <<offline, threads, wrap_pos, kind, stream, spos, start_index, data, dpos, last_id, root_span,
                   stack, ts, live, guards, status, trace, saves,
                   finalizations, tracer_data, ops, log, roots, lifo, tlifo, made>>

\* impl Read for TraceStream, the underlying read returns Err(e)
ReadErr(e) ==
    /\ IsEngine /\ Running /\ ts = "alive"
    /\ LET r == Err("read", e) IN res' = r /\ ret' = inspect(r)
    /\ UNCHANGED <<offline, threads, wrap_pos, kind, stream, spos, start_index, data, dpos, last_id, root_span,
                   spans, stack, ts, live, guards, status, trace, saves,
                   finalizations, tracer_data, ops, log, roots, lifo, tlifo, made>>

\* impl Seek for TraceStream, the underlying seek returns Ok(to)
SeekOk(to) ==
    /\ IsEngine /\ Running /\ ts = "alive"
    /\ Len(log) < MaxLog
    /\ to \in 0..(MaxStreamLen + 1)
    /\ LET r == Ok("seek", to)
           e1 == seek_action(Eng, to)
       IN /\ SetEngine(e1)
          /\ status' = IF e1.ok THEN status ELSE "failed"
          /\ log' = Append(log, LogEntry("seek", Last(stack), "", to, <<>>))
          /\ res' = r
          /\ ret' = inspect(r)
    /\ spos' = to
    /\ UNCHANGED <<offline, threads, wrap_pos, kind, stream, ts, live, guards, trace, saves, finalizations,
                   tracer_data, ops, roots, lifo, tlifo, made>>

\* impl Seek for TraceStream, the underlying seek returns Err(e)
SeekErr(e) ==
    /\ IsEngine /\ Running /\ ts = "alive"
    /\ LET r == Err("seek", e) IN res' = r /\ ret' = inspect(r)
    /\ UNCHANGED <<offline, threads, wrap_pos, kind, stream, spos, start_index, data, dpos, last_id, root_span,
                   spans, stack, ts, live, guards, status, trace, saves,
                   finalizations, tracer_data, ops, log, roots, lifo, tlifo, made>>

\* a faulty Tracer::read: the Op is recorded, the bytes are not kept
Tracer_read_dataless(o, d, bytes, st) ==
    [ops |-> Append(o, [count |-> Len(bytes), stack |-> st]), data |-> d]

\* Tracer::read: one Op per read, the bytes appended to Tracer.data
Tracer_read(o, d, bytes, st) ==
    [ops |-> Append(o, [count |-> Len(bytes), stack |-> st]), data |-> d \o bytes]

\* impl Read for TracerReader, the underlying read returns Ok(k)
TracerReadOk(k, st) ==
    /\ kind = "tracer" /\ Running
    /\ Len(ops) < MaxLog
    /\ k \in 0..Min(MaxRead, Len(stream) - spos)
    /\ LET buf == SubSeq(stream, spos + 1, spos + k)
           r == Ok("read", k)
           t == Tracer_read(ops, tracer_data, buf, st)
       IN /\ ops' = t.ops
          /\ tracer_data' = t.data
          /\ res' = r
          /\ ret' = inspect(r)
    /\ spos' = spos + k
    /\ UNCHANGED <<offline, threads, wrap_pos, kind, stream, start_index, data, dpos, last_id, root_span, spans,
                   stack, ts, live, guards, status, trace, saves, finalizations,
                   log, roots, lifo, tlifo, made>>

\* impl Read for TracerReader, the underlying read returns Err(e)
TracerReadErr(e) ==
    /\ kind = "tracer" /\ Running
    /\ LET r == Err("read", e) IN res' = r /\ ret' = inspect(r)
    /\ UNCHANGED <<offline, threads, wrap_pos, kind, stream, spos, start_index, data, dpos, last_id, root_span,
                   spans, stack, ts, live, guards, status, trace, saves,
                   finalizations, tracer_data, ops, log, roots, lifo, tlifo, made>>

Next ==
    \/ NewInternal
    \/ NewSpan
    \/ \E id \in 1..MaxSpans : Enter(id)
    \/ \E i \in 1..(MaxLog + 1) : Exit(i)
    \/ \E id \in 1..MaxSpans : DropSpan(id)
    \/ DropStream
    \/ \E k \in 0..MaxRead : ReadOk(k)
    \/ \E e \in Errors : ReadErr(e)
    \/ \E to \in 0..(MaxStreamLen + 1) : SeekOk(to)
    \/ \E e \in Errors : SeekErr(e)
    \/ \E k \in 0..MaxRead, st \in Stacks : TracerReadOk(k, st)
    \/ \E e \in Errors : TracerReadErr(e)

Spec == Init /\ [][Next]_vars

\* Span handles are Send: a second thread enters and exits spans of the session
InitConcurrent == Constructed /\ NoInput /\ threads = MaxThreads
SpecConcurrent == InitConcurrent /\ [][Next]_vars

\* --------------------------------------------- test::read_stuff, as a caller
\* The body of an instrumented parser in the shape of test::read_stuff: a
\* one-byte read, a nested instrumented function reading four bytes, a seek
\* and a last one-byte read, run inside one TraceStream.
ExampleStream == <<1, 2, 3, 4, 5, 6>>
U8 == 1
U32 == 4

\* what one statement of the caller does to the session
Statement(e1, g, l, lg, md, r, sp, to) ==
    /\ SetEngine(e1)
    /\ status' = IF e1.ok THEN status ELSE "failed"
    /\ guards' = g /\ live' = l /\ log' = lg /\ made' = md
    /\ res' = r /\ ret' = inspect(r)
    /\ spos' = sp
    /\ pc' = to
    /\ UNCHANGED <<pure, threads, wrap_pos, kind, stream, ts, trace, saves, finalizations,
                   tracer_data, ops, roots, lifo, tlifo>>

\* TraceStream::new / new_incremental at the head of the test
read_stuff_wrap ==
    /\ pc = "" /\ IsEngine /\ Running /\ ts = "unbuilt"
    /\ LET e1 == new_span(Eng, "root")
           e2 == enter(e1, e1.last_id)
       IN /\ SetEngine(e2)
          /\ status' = IF e2.ok THEN status ELSE "failed"
          /\ guards' = <<[id |-> e1.last_id, before |-> stack, owner |-> "stream", thread |-> 1]>>
          /\ log' = Append(log, LogEntry("enter", e1.last_id, "root", 0, <<>>))
    /\ roots' = roots + 1
    /\ ts' = "alive"
    /\ made' = Append(made, "root")
    /\ res' = NoCall /\ ret' = NoCall
    /\ pc' = "enter_outer"
    /\ UNCHANGED <<pure, threads, wrap_pos, kind, stream, spos, live, trace, saves, finalizations,
                   tracer_data, ops, lifo, tlifo>>

\* #[instrument]: the span is created and entered on the call
instrument_enter(from, to) ==
    /\ pc = from /\ Running
    /\ LET name == CallsiteName(last_id + 1)
           e1 == new_span(Eng, name)
           id == e1.last_id
       IN Statement(enter(e1, id),
                    Append(guards, [id |-> id, before |-> stack, owner |-> "user", thread |-> 1]),
                    live \cup {id},
                    Append(log, [k |-> "enter", id |-> id, name |-> name, n |-> 0,
                                 bytes |-> <<>>, ctx |-> StackNames]),
                    Append(made, name), NoCall, spos, to)

\* #[instrument]: the guard and then the span are dropped on return
instrument_exit(from, to) ==
    /\ pc = from /\ Running
    /\ guards # <<>>
    /\ LET g == Last(guards)
       IN Statement(exit(Eng, g.id), Front(guards), live \ {g.id}, log, made,
                    NoCall, spos, to)

\* reader.read_u8() / reader.read_u32(): one read of the TraceStream
read_exact(from, to, n) ==
    /\ pc = from /\ Running
    /\ LET k == Min(n, IF spos < Len(stream) THEN Len(stream) - spos ELSE 0)
           buf == SubSeq(stream, spos + 1, spos + k)
       IN \E pad \in BOOLEAN :
            Statement(read_action(Eng, buf, pad), guards, live,
                      Append(log, LogEntry("read", Last(stack), "", k, buf)), made,
                      Ok("read", k), spos + k, to)

\* reader.seek(..): one seek of the TraceStream, to the absolute offset o
read_stuff_seek(from, to) ==
    /\ pc = from /\ Running
    /\ \E o \in 0..Len(stream) :
         Statement(seek_action(Eng, o), guards, live,
                   Append(log, LogEntry("seek", Last(stack), "", o, <<>>)), made,
                   Ok("seek", o), o, to)

\* the TraceStream goes out of scope at the end of the test
read_stuff_drop ==
    /\ pc = "drop" /\ Running /\ ts = "alive"
    /\ guards # <<>>
    /\ \E io_ok \in BOOLEAN : Release(exit(Eng, Last(guards).id), "dropped", live, io_ok)
    /\ guards' = Front(guards)
    /\ ts' = "dropped"
    /\ res' = NoCall /\ ret' = NoCall
    /\ pc' = "done"
    /\ UNCHANGED <<pure, threads, wrap_pos, kind, stream, spos, live, tracer_data, ops, log,
                   roots, lifo, tlifo, made>>

NextReadStuff ==
    \/ read_stuff_wrap
    \/ instrument_enter("enter_outer", "read_a")
    \/ read_exact("read_a", "enter_nested", U8)
    \/ instrument_enter("enter_nested", "read_b")
    \/ read_exact("read_b", "exit_nested", U32)
    \/ instrument_exit("exit_nested", "seek")
    \/ read_stuff_seek("seek", "read_c")
    \/ read_exact("read_c", "exit_outer", U8)
    \/ instrument_exit("exit_outer", "drop")
    \/ read_stuff_drop

InitReadStuff ==
    /\ ConstructedOver(ExampleStream) /\ NoInput
    /\ IsEngine /\ spos \in 0..2
    /\ threads = 1

SpecReadStuff == InitReadStuff /\ [][NextReadStuff]_vars

\* ------------------------------------------ consumers: offset accumulation
\* TraceTree::new::convert: the TraceNode of an action and the offset after it
RECURSIVE convert(_, _), convert_children(_, _, _, _)
convert(offset, action) ==
    IF action.t = "Read"
    THEN [offset |-> offset + action.v,
          node |-> [start |-> offset, end |-> offset + action.v, t |-> "Read",
                    children |-> <<>>]]
    ELSE IF action.t = "Seek"
    THEN [offset |-> action.v,
          node |-> [start |-> action.v, end |-> action.v, t |-> "Seek",
                    children |-> <<>>]]
    ELSE LET r == convert_children(offset, action.v.actions, 1, <<>>)
         IN [offset |-> r.offset,
             node |-> [start |-> offset, end |-> r.offset, t |-> "Span",
                       children |-> r.children]]

convert_children(offset, acts, i, acc) ==
    IF i > Len(acts) THEN [offset |-> offset, children |-> acc]
    ELSE LET r == convert(offset, acts[i])
         IN convert_children(r.offset, acts, i + 1, Append(acc, r.node))

\* TraceTree::new: the walk starts at offset 0
TraceTree_new(t) == convert(0, t.root).node

\* the Read nodes of a TraceNode tree, depth first
RECURSIVE ReadNodes(_), ReadNodesOf(_, _)
ReadNodes(node) ==
    IF node.t = "Read" THEN <<node>>
    ELSE IF node.t = "Seek" THEN <<>>
    ELSE ReadNodesOf(node.children, 1)
ReadNodesOf(children, i) ==
    IF i > Len(children) THEN <<>>
    ELSE ReadNodes(children[i]) \o ReadNodesOf(children, i + 1)

\* TreeData::render: &trace.data[node.start..node.end], which panics past the end
Slice(d, node) ==
    IF node.end <= Len(d) THEN [ok |-> TRUE, bytes |-> SubSeq(d, node.start + 1, node.end)]
    ELSE [ok |-> FALSE, bytes |-> <<>>]

\* ------------------------------------------------------------ Path (TUI)
\* usize::ilog2
RECURSIVE ilog2(_)
ilog2(x) == IF x < 2 THEN 0 ELSE 1 + ilog2(x \div 2)

\* the width Path::push, Path::pop and Path::split_next compute for max
num_bytes(max) == IF max = 0 THEN 1 ELSE (ilog2(max) \div 8) + 1

\* usize::to_be_bytes: the k low-order bytes of n, most significant first
RECURSIVE be_bytes(_, _)
be_bytes(n, k) == IF k = 0 THEN <<>> ELSE Append(be_bytes(n \div 256, k - 1), n % 256)
UsizeBytes == 8
to_be_bytes(n) == be_bytes(n, UsizeBytes)

\* a faulty Path::push: the bytes are appended least significant first
Path_push_le(p, max, n) ==
    LET b == to_be_bytes(n)
        w == num_bytes(max)
    IN p \o [i \in 1..w |-> b[Len(b) - i + 1]]

Path_push(p, max, n) ==
    LET b == to_be_bytes(n)
    IN p \o SubSeq(b, Len(b) - num_bytes(max) + 1, Len(b))

\* a faulty Path::pop: one byte is removed whatever max is
Path_pop_one(p, max) == SubSeq(p, 1, Len(p) - 1)

Path_pop(p, max) == SubSeq(p, 1, Len(p) - num_bytes(max))

\* the fold of split_next: result |= byte << (i * 8) over the bytes reversed
RECURSIVE be_value(_)
be_value(b) == IF b = <<>> THEN 0 ELSE be_value(Front(b)) * 256 + Last(b)

\* a faulty split_next: the bytes are folded least significant first
RECURSIVE le_value(_)
le_value(b) == IF b = <<>> THEN 0 ELSE le_value(Tail(b)) * 256 + Head(b)
Path_split_next_le(p, max) ==
    LET w == num_bytes(max) IN
    IF w > Len(p) THEN [ok |-> FALSE, n |-> 0, rest |-> p]
    ELSE [ok |-> TRUE, n |-> le_value(SubSeq(p, 1, w)), rest |-> SubSeq(p, w + 1, Len(p))]

\* Path::split_next; arr[..num_bytes] panics on a path that is too short
Path_split_next(p, max) ==
    LET w == num_bytes(max) IN
    IF w > Len(p) THEN [ok |-> FALSE, n |-> 0, rest |-> p]
    ELSE [ok |-> TRUE, n |-> be_value(SubSeq(p, 1, w)), rest |-> SubSeq(p, w + 1, Len(p))]

\* derive(PartialOrd, Ord) on Path(Vec<u8>): lexicographic, a proper prefix first
RECURSIVE LexLess(_, _)
LexLess(a, b) ==
    IF b = <<>> THEN FALSE
    ELSE IF a = <<>> THEN TRUE
    ELSE IF Head(a) # Head(b) THEN Head(a) < Head(b)
    ELSE LexLess(Tail(a), Tail(b))

\* test::test_path: the loop of split_next over the max of every pair
RECURSIVE split_all(_, _, _, _)
split_all(p, prs, i, acc) ==
    IF i > Len(prs) \/ ~acc.ok THEN [acc EXCEPT !.rest = p]
    ELSE LET r == Path_split_next(p, prs[i].max)
         IN split_all(r.rest, prs, i + 1,
                      [ok |-> r.ok, ns |-> IF r.ok THEN Append(acc.ns, r.n) ELSE acc.ns,
                       rest |-> r.rest])

\* TraceTree::new::convert: the identifier of every node, parent first, the
\* children in index order (path.push(len, i) before a child, path.pop(len) after)
RECURSIVE identifiers(_, _), identifiers_of(_, _, _)

\* a faulty convert: path.pop is left out after a child
RECURSIVE identifiers_of_unpopped(_, _, _)
identifiers_of_unpopped(acts, i, p) ==
    IF i > Len(acts) THEN <<>>
    ELSE LET pushed == Path_push(p, Len(acts), i - 1)
             below == identifiers(acts[i], pushed)
         IN below \o identifiers_of_unpopped(acts, i + 1, pushed)

identifiers(action, p) ==
    IF action.t = "Span" THEN <<p>> \o identifiers_of(action.v.actions, 1, p)
    ELSE <<p>>
identifiers_of(acts, i, p) ==
    IF i > Len(acts) THEN <<>>
    ELSE LET pushed == Path_push(p, Len(acts), i - 1)
             below == identifiers(acts[i], pushed)
             popped == Path_pop(pushed, Len(acts))
         IN below \o identifiers_of(acts, i + 1, popped)

\* every TraceNode of a tree, parent first
RECURSIVE AllNodes(_), AllNodesOf(_, _)
AllNodes(node) == <<node>> \o AllNodesOf(node.children, 1)
AllNodesOf(children, i) ==
    IF i > Len(children) THEN <<>>
    ELSE AllNodes(children[i]) \o AllNodesOf(children, i + 1)

\* TraceTree::new::convert: the nodes.insert(path.clone(), node.clone()) calls
\* in the order they are made, a span after its children; ids and nodes_ list
\* the identifiers and the TraceNodes parent first
RECURSIVE insertions(_, _, _), insertions_of(_, _, _, _)
insertions(node, ids, at) ==
    LET below == insertions_of(node.children, 1, ids, at + 1)
    IN [at |-> below.at,
        ins |-> Append(below.ins, [path |-> ids[at], node |-> node])]
insertions_of(children, i, ids, at) ==
    IF i > Len(children) THEN [at |-> at, ins |-> <<>>]
    ELSE LET r == insertions(children[i], ids, at)
             rest == insertions_of(children, i + 1, ids, r.at)
         IN [at |-> rest.at, ins |-> r.ins \o rest.ins]

\* BTreeMap::insert, call after call: a later insert under a key replaces the value
BTreeMap_of(ins) ==
    [k \in {ins[i].path : i \in 1..Len(ins)} |->
        LET last == CHOOSE i \in 1..Len(ins) :
                       /\ ins[i].path = k
                       /\ \A j \in 1..Len(ins) : ins[j].path = k => j <= i
        IN ins[last].node]

\* ------------------------------------------------------------ viewer
\* SparseTreeSpanTrait::build_full_spans: FullAction::Read(start..index),
\* FullAction::Seek(start, index), FullAction::Span(..)
RECURSIVE build_full_spans(_, _), build_full_spans_map(_, _, _, _)
build_full_spans(span, index) ==
    LET r == build_full_spans_map(span.actions, 1, index, <<>>)
    IN [index |-> r.index, full |-> [name |-> span.name, actions |-> r.acc]]
build_full_spans_map(acts, i, index, acc) ==
    IF i > Len(acts) THEN [index |-> index, acc |-> acc]
    ELSE LET a == acts[i] IN
         IF a.t = "Read"
         THEN build_full_spans_map(acts, i + 1, index + a.v,
                  Append(acc, [t |-> "Read", start |-> index, end |-> index + a.v]))
         ELSE IF a.t = "Seek"
         THEN build_full_spans_map(acts, i + 1, a.v,
                  Append(acc, [t |-> "Seek", start |-> index, end |-> a.v]))
         ELSE LET r == build_full_spans(a.v, index)
              IN build_full_spans_map(acts, i + 1, r.index,
                     Append(acc, [t |-> "Span", span |-> r.full]))

\* SparseTreeSpanTrait::collect_spans: one FlatSpan per Read, none for a Seek
RECURSIVE collect_spans(_, _, _, _), collect_spans_loop(_, _, _, _, _)
\* a faulty collect_spans: a Seek is given a record too
RECURSIVE collect_spans_loop_seek(_, _, _, _, _)
collect_spans_loop_seek(span, i, index, vpath, spans_) ==
    IF i > Len(span.actions) THEN [index |-> index, spans |-> spans_]
    ELSE LET a == span.actions[i]
             here == Append(vpath, i - 1)
         IN IF a.t = "Read"
            THEN collect_spans_loop_seek(span, i + 1, index + a.v, vpath,
                     Append(spans_, [start |-> index, end |-> index + a.v,
                                     name |-> span.name, path |-> here]))
            ELSE IF a.t = "Seek"
            THEN collect_spans_loop_seek(span, i + 1, a.v, vpath,
                     Append(spans_, [start |-> a.v, end |-> a.v,
                                     name |-> span.name, path |-> here]))
            ELSE LET r == collect_spans(a.v, index, here, spans_)
                 IN collect_spans_loop_seek(span, i + 1, r.index, vpath, r.spans)

collect_spans(span, index, vpath, spans_) ==
    collect_spans_loop(span, 1, index, vpath, spans_)
collect_spans_loop(span, i, index, vpath, spans_) ==
    IF i > Len(span.actions) THEN [index |-> index, spans |-> spans_]
    ELSE LET a == span.actions[i]
             here == Append(vpath, i - 1)
         IN IF a.t = "Read"
            THEN collect_spans_loop(span, i + 1, index + a.v, vpath,
                     Append(spans_, [start |-> index, end |-> index + a.v,
                                     name |-> span.name, path |-> here]))
            ELSE IF a.t = "Seek"
            THEN collect_spans_loop(span, i + 1, a.v, vpath, spans_)
            ELSE LET r == collect_spans(a.v, index, here, spans_)
                 IN collect_spans_loop(span, i + 1, r.index, vpath, r.spans)

\* SparseTreeSpanTrait::build_tree: collect_spans from index 0
build_tree(span) == collect_spans(span, 0, <<>>, <<>>).spans

\* ------------------------------------------- consumers and Path, as steps
MaxChildren == 2    \* actions per span of a tree handed to a consumer
MaxPairs == 2       \* (max, n) pairs pushed on one Path

SeqsUpTo(S, n) == UNION {[1..k -> S] : k \in 0..n}
Leaves == {Read(U8), Seek(0)}
InnerSpans ==
    {[name |-> "read_nested_stuff", actions |-> a] : a \in SeqsUpTo(Leaves, MaxChildren)}
Trees ==
    {[name |-> "read_stuff", actions |-> a] :
        a \in SeqsUpTo(Leaves \cup {SpanAct(x) : x \in InnerSpans}, MaxChildren)}

\* what test::read_stuff records up to its second read_u8, for every target of
\* its seek
ExampleTrees ==
    {[name |-> "read_stuff", actions |->
        <<Read(U8),
          SpanAct([name |-> "read_nested_stuff", actions |-> <<Read(U32)>>]),
          Seek(o), Read(U8)>>] : o \in 0..Len(ExampleStream)}

\* the (max, n) values of test::test_path, with the width boundaries
Maxes == {0, 12, 255, 256, 300, 65536}
Ns == {0, 2, 255, 256, 270, 65536}

\* ser-hex-tui: TraceTree::new over the root of a loaded Trace
TraceTree_new_build ==
    /\ tree # NoSpan /\ tui = <<>>
    /\ LET root == TraceTree_new([root |-> SpanAct(tree)])
           ids == identifiers(SpanAct(tree), <<>>)
       IN tui' = [root |-> root, ids |-> ids,
                  nodes |-> BTreeMap_of(insertions(root, ids, 1).ins)]
    /\ UNCHANGED <<capture, pc, tree, full, path, pairs, decoded, samples, retained, hover, rendered>>

\* ser-hex-viewer: Trace::load runs build_tree and build_full_spans(&mut 0)
Trace_load ==
    /\ tree # NoSpan /\ full = <<>>
    /\ full' = [full |-> build_full_spans(tree, 0).full, flat |-> build_tree(tree)]
    /\ UNCHANGED <<capture, pc, tree, tui, path, pairs, decoded, samples, retained, hover, rendered>>

\* a faulty query_point: of the records on the address, only those nearest the root
query_point_outermost(flat, address) ==
    LET on == {flat[i] : i \in {j \in 1..Len(flat) :
                   flat[j].start <= address /\ address < flat[j].end}}
    IN {r \in on : \A q \in on : Len(r.path) <= Len(q.path)}

\* IntervalTree::query_point: the records whose range holds the address
query_point(flat, address) ==
    {flat[i] : i \in {j \in 1..Len(flat) :
        flat[j].start <= address /\ address < flat[j].end}}

\* ser-hex-viewer: hover_byte for the byte under the pointer
HoverByte(address) ==
    /\ full # <<>>
    /\ hover' = [address |-> address, hits |-> query_point(full.flat, address)]
    /\ UNCHANGED <<capture, pc, tree, tui, full, path, pairs, decoded, samples, retained, rendered>>

PathIdle == tree = NoSpan /\ samples = <<>> /\ decoded = <<>>

\* path.push(max, n)
PushPair(max, n) ==
    /\ PathIdle /\ Len(pairs) < MaxPairs
    /\ path' = Path_push(path, max, n)
    /\ pairs' = Append(pairs, [max |-> max, n |-> n])
    /\ UNCHANGED <<capture, pc, tree, tui, full, decoded, samples, retained, hover, rendered>>

\* path.pop(max) with the max of the last push
PopPair ==
    /\ PathIdle /\ pairs # <<>>
    /\ path' = Path_pop(path, Last(pairs).max)
    /\ pairs' = Front(pairs)
    /\ UNCHANGED <<capture, pc, tree, tui, full, decoded, samples, retained, hover, rendered>>

\* test::test_path: path.as_slice() split with the max of every pair pushed
SplitAll ==
    /\ PathIdle /\ pairs # <<>>
    /\ decoded' = split_all(path, pairs, 1, [ok |-> TRUE, ns |-> <<>>, rest |-> path])
    /\ UNCHANGED <<capture, pc, tree, tui, full, path, pairs, samples, retained, hover, rendered>>

\* ------------------------------------------------- Tracer::trace: trimming
MaxSamples == 2     \* reads sampled by one Tracer

\* stacks as sequences of symbol addresses, outermost frame first
TrimStacks ==
    {<<>>, <<"A">>, <<"A", "B">>, <<"A", "D">>, <<"A", "A">>, <<"A", "B", "D">>,
     <<"A", "B", "C", "D">>, <<"A", "B", "E", "D">>, <<"C", "D">>}
SampleSets == UNION {[1..k -> TrimStacks] : k \in 1..MaxSamples}

\* 'find_start: common frames at the bottom of the stack
RECURSIVE find_start(_, _)
find_start(stacks, skip_start) ==
    IF stacks = <<>> THEN skip_start
    ELSE LET first == stacks[1] IN
         IF skip_start >= Len(first) THEN skip_start
         ELSE IF \A i \in 1..Len(stacks) :
                    /\ skip_start < Len(stacks[i])
                    /\ stacks[i][skip_start + 1] = first[skip_start + 1]
              THEN find_start(stacks, skip_start + 1)
              ELSE skip_start

\* op.stack[skip_start..]
From(stack_, skip_start) == SubSeq(stack_, skip_start + 1, Len(stack_))

\* a faulty 'find_end: the frames are compared on the whole stacks, the common
\* bottom frames included
RECURSIVE find_end_whole(_, _, _)
find_end_whole(stacks, skip_start, skip_end) ==
    IF stacks = <<>> THEN skip_end
    ELSE LET s == stacks[1] IN
         IF Len(s) < skip_end + 1 THEN skip_end
         ELSE IF \A i \in 1..Len(stacks) :
                    /\ Len(stacks[i]) >= skip_end + 1
                    /\ stacks[i][Len(stacks[i]) - skip_end] = s[Len(s) - skip_end]
              THEN find_end_whole(stacks, skip_start, skip_end + 1)
              ELSE skip_end

\* 'find_end: common frames at the top of what 'find_start left
RECURSIVE find_end(_, _, _)
find_end(stacks, skip_start, skip_end) ==
    IF stacks = <<>> THEN skip_end
    ELSE LET s == From(stacks[1], skip_start) IN
         IF Len(s) < skip_end + 1 THEN skip_end
         ELSE IF \A i \in 1..Len(stacks) :
                    LET si == From(stacks[i], skip_start)
                    IN /\ Len(si) >= skip_end + 1
                       /\ si[Len(si) - skip_end] = s[Len(s) - skip_end]
              THEN find_end(stacks, skip_start, skip_end + 1)
              ELSE skip_end

\* Tracer::trace up to the construction of the root frame: the slice
\* op.stack[skip_start..(op.stack.len() - skip_end)] of every sample; stack[0]
\* of the first one panics when nothing of it is retained
Tracer_trace_trim(stacks) ==
    LET skip_start == find_start(stacks, 0)
        skip_end == find_end(stacks, skip_start, 0)
        frames == [i \in 1..Len(stacks) |->
                      SubSeq(stacks[i], skip_start + 1, Len(stacks[i]) - skip_end)]
    IN [skip_start |-> skip_start, skip_end |-> skip_end, frames |-> frames,
        ok |-> stacks = <<>> \/ frames[1] # <<>>]

\* tracer.trace() on the samples taken
Tracer_trace ==
    /\ samples # <<>> /\ retained = <<>>
    /\ retained' = Tracer_trace_trim(samples)
    /\ UNCHANGED <<capture, pc, tree, tui, full, path, pairs, decoded, samples, hover, rendered>>

\* ------------------------------------------- Tracer::trace: the frame tree
\* A backtrace::Frame is kept as its symbol address; symbolize() names a
\* frame after the function its address lies in, so the name is the address.
Frame_new(id) == [t |-> "Frame", id |-> id, children |-> <<>>]
TreeNode_Read(count) == [t |-> "Read", count |-> count]

\* a faulty Frame::insert: any earlier child with the address is descended into
RECURSIVE Frame_insert_merging(_, _, _)
Frame_insert_merging(frame, path_, count) ==
    IF path_ = <<>>
    THEN [frame EXCEPT !.children = Append(@, TreeNode_Read(count))]
    ELSE LET rest == Tail(path_)
             ch == frame.children
             same == {i \in 1..Len(ch) : ch[i].t = "Frame" /\ ch[i].id = Head(path_)}
         IN IF same # {}
            THEN LET i == CHOOSE j \in same : \A k \in same : k <= j
                 IN [frame EXCEPT !.children[i] = Frame_insert_merging(ch[i], rest, count)]
            ELSE [frame EXCEPT !.children =
                      Append(@, Frame_insert_merging(Frame_new(Head(path_)), rest, count))]

\* Frame::insert
RECURSIVE Frame_insert(_, _, _)
Frame_insert(frame, path_, count) ==
    IF path_ = <<>>
    THEN [frame EXCEPT !.children = Append(@, TreeNode_Read(count))]
    ELSE LET rest == Tail(path_)
             ch == frame.children
         IN IF /\ ch # <<>>
               /\ Last(ch).t = "Frame"
               /\ Last(ch).id = Head(path_)
            THEN [frame EXCEPT !.children[Len(ch)] = Frame_insert(Last(ch), rest, count)]
            ELSE [frame EXCEPT !.children =
                      Append(@, Frame_insert(Frame_new(Head(path_)), rest, count))]

\* TreeNode::convert
RECURSIVE TreeNode_convert(_)
TreeNode_convert(node) ==
    IF node.t = "Read" THEN Read(node.count)
    ELSE SpanAct([name |-> node.id,
                  actions |-> [i \in 1..Len(node.children) |->
                                  TreeNode_convert(node.children[i])]])

\* for op in &self.ops { root.insert(&op.stack[..], op.count) }
RECURSIVE insert_all(_, _, _, _)
insert_all(root, frames, o, i) ==
    IF i > Len(o) THEN root
    ELSE insert_all(Frame_insert(root, frames[i], o[i].count), frames, o, i + 1)

\* Tracer::trace: the Trace it returns, or the panic of stack[0]
Tracer_trace_of(o, d) ==
    LET t == Tracer_trace_trim([i \in 1..Len(o) |-> o[i].stack])
    IN IF ~t.ok THEN [ok |-> FALSE, trace |-> NoTrace]
       ELSE [ok |-> TRUE,
             trace |->
               [data |-> d, start_index |-> 0,
                root |-> SpanAct(
                   [name |-> "root",
                    actions |->
                      IF o = <<>> THEN <<>>
                      ELSE <<TreeNode_convert(
                               insert_all(Frame_new(t.frames[1][1]), t.frames, o, 1))>>])]]

\* stacks a TracerReader samples, outermost frame first
SampledStacks == {<<"A">>, <<"A", "B">>, <<"A", "C">>, <<"A", "B", "D">>}

\* reader.trace() on what has been read so far
TracerTrace ==
    /\ kind = "tracer" /\ Running
    /\ LET r == Tracer_trace_of(ops, tracer_data)
       IN /\ status' = IF r.ok THEN status ELSE "failed"
          /\ trace' = IF r.ok THEN r.trace ELSE trace
    /\ res' = NoCall /\ ret' = NoCall
    /\ UNCHANGED <<offline, threads, wrap_pos, kind, stream, spos, start_index, data, dpos,
                   last_id, root_span, spans, stack, ts, live, guards, saves,
                   finalizations, tracer_data, ops, log, roots, lifo, tlifo, made>>

NextTracer ==
    \/ \E k \in 0..MaxRead, st \in SampledStacks : TracerReadOk(k, st)
    \/ \E e \in Errors : TracerReadErr(e)
    \/ TracerTrace

\* a TracerReader over a stream
InitTracer == Constructed /\ NoInput /\ kind = "tracer" /\ threads = 1

SpecTracer == InitTracer /\ [][NextTracer]_vars

\* ------------------------------------------------- ser-hex-tui on a file
\* the data of a trace file: none, or the bytes of the example stream
FileData == {<<>>, ExampleStream}
LoadedTraces ==
    {[data |-> d, start_index |-> 0, root |-> SpanAct(t)] :
        d \in FileData, t \in Trees \cup ExampleTrees}

\* TreeData::render for one identifier of the nodes map.  A Read is shown
\* with its length and the bytes data[start..end], which panics past the end
\* of data; a Span is shown with end - start, which panics on underflow in a
\* build with overflow checks and wraps in one without (len is then negative
\* here); a Seek is shown with its two offsets.
TreeData_render(identifier) ==
    /\ tui # <<>> /\ identifier \in DOMAIN tui.nodes
    /\ LET node == tui.nodes[identifier]
           sliced == Slice(trace.data, node)
       IN \/ /\ node.t = "Read" /\ sliced.ok
             /\ rendered' = [id |-> identifier, ok |-> TRUE,
                             len |-> node.end - node.start, bytes |-> sliced.bytes]
          \/ /\ node.t = "Read" /\ ~sliced.ok
             /\ rendered' = [id |-> identifier, ok |-> FALSE, len |-> 0, bytes |-> <<>>]
          \/ /\ node.t = "Seek"
             /\ rendered' = [id |-> identifier, ok |-> TRUE, len |-> 0, bytes |-> <<>>]
          \/ /\ node.t = "Span"
             /\ \E overflow_checks \in BOOLEAN :
                  rendered' = [id |-> identifier,
                               ok |-> node.start <= node.end \/ ~overflow_checks,
                               len |-> node.end - node.start, bytes |-> <<>>]
    /\ UNCHANGED <<capture, pc, tree, tui, full, path, pairs, decoded, samples, retained,
                   hover>>

NextTui ==
    \/ TraceTree_new_build
    \/ \E identifier \in SeqsUpTo(0..(MaxChildren + 1), 2) : TreeData_render(identifier)

\* main: the Trace deserialized from the file named on the command line
InitTui ==
    /\ SessionOver(<<>>) /\ kind = "tracer" /\ threads = 1
    /\ trace \in LoadedTraces
    /\ tree = trace.root.v
    /\ tui = <<>> /\ full = <<>>
    /\ path = <<>> /\ pairs = <<>> /\ decoded = <<>>
    /\ samples = <<>> /\ retained = <<>> /\ hover = <<>> /\ rendered = <<>>

SpecTui == InitTui /\ [][NextTui]_vars

\* ------------------------------------ the pure functions, on bounded inputs
NextOffline ==
    \/ TraceTree_new_build
    \/ Trace_load
    \/ \E address \in 0..Len(ExampleStream) : HoverByte(address)
    \/ \E max \in Maxes, n \in Ns : PushPair(max, n)
    \/ PopPair
    \/ SplitAll
    \/ Tracer_trace

\* one input at a time: a tree for the consumers, samples for the Tracer, or
\* neither and an empty Path to push on
InitOffline ==
    /\ ConstructedOver(<<>>) /\ kind = "tracer" /\ threads = 1
    /\ tui = <<>> /\ full = <<>>
    /\ path = <<>> /\ pairs = <<>> /\ decoded = <<>>
    /\ retained = <<>> /\ hover = <<>> /\ rendered = <<>>
    /\ \/ tree \in Trees \cup ExampleTrees /\ samples = <<>>
       \/ tree = NoSpan /\ samples \in SampleSets
       \/ tree = NoSpan /\ samples = <<>>

SpecOffline == InitOffline /\ [][NextOffline]_vars

\* ------------------------------------------------------- history views
ReadsOf(l) == SelectSeq(l, LAMBDA x : x.k = "read")
SeeksOf(l) == SelectSeq(l, LAMBDA x : x.k = "seek")
RECURSIVE Concat(_, _)
Concat(l, i) == IF i > Len(l) THEN <<>> ELSE l[i].bytes \o Concat(l, i + 1)
RECURSIVE Sum(_, _)
Sum(l, i) == IF i > Len(l) THEN 0 ELSE l[i].n + Sum(l, i + 1)
LogView == [i \in 1..Len(log) |->
               [k |-> log[i].k, name |-> log[i].name, n |-> log[i].n, ctx |-> log[i].ctx]]
EnteredIds == {log[i].id : i \in {j \in 1..Len(log) : log[j].k = "enter"}}

\* the events of a finalized tree, depth first, each with the names of the spans around it
RECURSIVE Chronicle(_, _), ChronicleOf(_, _, _)
Chronicle(action, ctx) ==
    IF action.t = "Span"
    THEN <<[k |-> "enter", name |-> action.v.name, n |-> 0, ctx |-> ctx]>>
         \o ChronicleOf(action.v.actions, 1, Append(ctx, action.v.name))
    ELSE <<[k |-> IF action.t = "Read" THEN "read" ELSE "seek", name |-> "",
            n |-> action.v, ctx |-> ctx]>>
ChronicleOf(acts, i, ctx) ==
    IF i > Len(acts) THEN <<>>
    ELSE Chronicle(acts[i], ctx) \o ChronicleOf(acts, i + 1, ctx)

Saved == saves = 1
SingleRootLifo == roots = 1 /\ lifo

\* ------------------------------------------------------------------ claims

\* C1 (as claimed): for every saved Trace of a single-root, correctly nested
\* session, replaying the tree from offset 0 and slicing data at each Read's
\* range gives exactly the bytes that Read returned.
C1_ReplayReproducesReads ==
    (Saved /\ SingleRootLifo) =>
        LET nodes == ReadNodes(TraceTree_new(trace))
            reads == ReadsOf(log)
        IN /\ Len(nodes) = Len(reads)
           /\ \A i \in 1..Len(nodes) :
                /\ Slice(trace.data, nodes[i]).ok
                /\ Slice(trace.data, nodes[i]).bytes = reads[i].bytes

C3_TreeIsChronological ==
    (Saved /\ SingleRootLifo) =>
        /\ Chronicle(trace.root, <<>>) = LogView
        /\ DOMAIN spans = (1..last_id) \ EnteredIds

C3_Witness ==
    /\ Saved /\ SingleRootLifo /\ Len(log) = 3
    /\ log[2].k = "read" /\ log[3].k = "enter"

\* C4: a successful read or seek appends exactly one action, Read(n) with the
\* byte count returned or Seek(o) with the offset returned, to the span on top
\* of the stack and to no other; a seek leaves the bytes of data alone.
C4_OneActionOnTop ==
    [][ (ret'.op # "" /\ ret'.ok /\ IsEngine) =>
          LET top == Last(stack)
              a == IF ret'.op = "read" THEN Read(ret'.val) ELSE Seek(ret'.val)
          IN /\ stack # <<>>
             /\ status' = "running"
             /\ DOMAIN spans' = DOMAIN spans
             /\ spans'[top].actions = Append(spans[top].actions, a)
             /\ spans'[top].name = spans[top].name
             /\ \A id \in DOMAIN spans \ {top} : spans'[id] = spans[id]
             /\ stack' = stack
             /\ ret'.op = "seek" => data' = data
             /\ ret'.op = "read" => Len(data') >= Len(data) ]_vars

C4_Witness ==
    /\ IsEngine /\ ret = Ok("read", 0) /\ stack = <<1, 2>>
    /\ spans[2].actions = <<Read(0)>> /\ spans[1].actions = <<SpanAct(2)>>

C6_ExitChecksPairing ==
    [][ \A i \in 1..Len(guards) :
          (guards' = Remove(guards, i) /\ finalizations' = finalizations) =>
             /\ stack = <<>> => status' = "failed"
             /\ stack # <<>> =>
                  /\ stack' = Front(stack)
                  /\ (status' = "failed") <=> (Last(stack) # guards[i].id)
             /\ lifo' => (status' # "failed" /\ stack' = guards[i].before) ]_vars

C6_Witness ==
    status = "failed" /\ finalizations = 0 /\ ~lifo /\ Len(stack) = 1

\* C7 (as claimed): a second registration as root makes the engine fail.
C7_SecondRootFails ==
    roots > 1 => status = "failed"

\* C8: when the underlying read or seek fails, the wrapper returns that same
\* error and nothing of the engine (or of the Tracer) changes.
C8_ErrorLeavesNoTrace ==
    [][ ~res'.ok =>
          /\ ret' = res'
          /\ UNCHANGED <<start_index, data, dpos, last_id, root_span, spans, stack,
                         status, trace, saves, finalizations, tracer_data, ops>> ]_vars

C8_Witness ==
    /\ IsEngine /\ ~ret.ok /\ ret.op = "seek" /\ Len(stack) = 2
    /\ spans[2].actions # <<>>

C10_NoTraceAfterViolation ==
    (roots > 1 \/ status = "failed") => saves = 0

\* C11 (as claimed): with two threads that each release their own guards
\* newest first, no exit fails its pairing check and every successful read or
\* seek (made by the thread that holds the TraceStream) is recorded in a span
\* that this thread entered.
C11_InterleavedPathsIntact ==
    [][ /\ (tlifo' /\ Len(guards') < Len(guards) /\ finalizations' = finalizations)
              => status' # "failed"
        /\ (tlifo /\ ret'.op # "" /\ ret'.ok /\ IsEngine /\ stack # <<>>) =>
              \E i \in 1..Len(guards) :
                  guards[i].id = Last(stack) /\ guards[i].thread = 1 ]_vars

\* the tree of the example: read_stuff holding Read(1), the nested span with
\* Read(4), the Seek and the last Read(1), under the root span
ExampleRoot(o) ==
    SpanAct([name |-> "root", actions |-> <<
        SpanAct([name |-> "read_stuff", actions |-> <<
            Read(1),
            SpanAct([name |-> "read_nested_stuff", actions |-> <<Read(4)>>]),
            Seek(o),
            Read(1)>>])>>])

\* the example as stated: the stream is wrapped at offset 0 and the seek goes to 0
ExampleRun ==
    /\ pc = "done" /\ Saved
    /\ ReadsOf(log)[1].bytes = <<1>>
    /\ SeeksOf(log)[1].n = 0

TuiRanges(node) ==
    LET leaves == SelectSeq(AllNodes(node), LAMBDA x : x.t # "Span")
    IN [i \in 1..Len(leaves) |->
           [t |-> leaves[i].t, start |-> leaves[i].start, end |-> leaves[i].end]]
RECURSIVE FullRanges(_, _)
FullRanges(acts, i) ==
    IF i > Len(acts) THEN <<>>
    ELSE (IF acts[i].t = "Span" THEN FullRanges(acts[i].span.actions, 1)
          ELSE <<[t |-> acts[i].t, start |-> acts[i].start, end |-> acts[i].end]>>)
         \o FullRanges(acts, i + 1)
OnlyReads(ranges) ==
    LET r == SelectSeq(ranges, LAMBDA x : x.t = "Read")
    IN [i \in 1..Len(r) |-> [start |-> r[i].start, end |-> r[i].end]]
FlatRanges(flat) == [i \in 1..Len(flat) |-> [start |-> flat[i].start, end |-> flat[i].end]]

\* C14 (as claimed): the TUI (TraceTree::new) and the viewer (build_full_spans,
\* collect_spans) give every Read and every Seek of every tree the same range:
\* [offset, offset+n) for Read(n) and [old offset, o) for Seek(o).
C14_ConsumersAgree ==
    (tui # <<>> /\ full # <<>>) =>
        /\ TuiRanges(tui.root) = FullRanges(full.full.actions, 1)
        /\ OnlyReads(TuiRanges(tui.root)) = FlatRanges(full.flat)

\* C15 (as claimed): in the tree the TUI builds, every Span node that has
\* children starts where its first child starts and ends where its last
\* child ends.
C15_SpanCoversChildren ==
    tui # <<>> =>
        LET all == AllNodes(tui.root) IN
        \A i \in 1..Len(all) :
            (all[i].t = "Span" /\ all[i].children # <<>>) =>
                /\ all[i].start = all[i].children[1].start
                /\ all[i].end = Last(all[i].children).end

\* C16 (as claimed): when finalization runs after a session with a single
\* root whose guards were all released newest first, into_tree finds every
\* span id it reaches still present in the id map.
C16_FinalizationResolves ==
    [][ (finalizations' = finalizations + 1 /\ roots = 1 /\ lifo') =>
            into_tree(root_span, spans).ok ]_vars

\* C17: when every pair pushed on an empty Path has 0 <= n <= max, splitting
\* the path with the same max values in the same order returns exactly the n
\* values pushed and leaves nothing of the path.
C17_PathRoundTrip ==
    (decoded # <<>> /\ \A i \in 1..Len(pairs) : pairs[i].n <= pairs[i].max) =>
        /\ decoded.ok
        /\ decoded.ns = [i \in 1..Len(pairs) |-> pairs[i].n]
        /\ decoded.rest = <<>>

C17_Witness ==
    /\ decoded # <<>> /\ Len(pairs) = 2
    /\ pairs[1] = [max |-> 300, n |-> 270] /\ pairs[2] = [max |-> 256, n |-> 256]
    /\ path = <<1, 14, 1, 0>>
    /\ decoded.ns = <<270, 256>>

\* C18: the identifiers TraceTree::new gives the nodes of a tree, listed
\* parent first and children by index, are strictly increasing in the byte
\* order of Path; and a path ending in sibling index n1 is smaller than the
\* path ending in any larger index n2 under the same parent and max.
C18_PathOrderIsPreOrder ==
    /\ tui # <<>> =>
          \A i, j \in 1..Len(tui.ids) : i < j => LexLess(tui.ids[i], tui.ids[j])
    /\ (PathIdle /\ pairs # <<>>) =>
          LET last == Last(pairs)
              parent == Path_pop(path, last.max)
          IN \A n2 \in Ns :
                (last.n < n2 /\ n2 <= last.max) =>
                    LexLess(path, Path_push(parent, last.max, n2))

C18_Witness ==
    /\ tui # <<>>
    /\ tui.ids = <<<<>>, <<0>>, <<0, 0>>, <<0, 1>>, <<1>>, <<1, 0>>, <<1, 1>>>>

\* the width the contract states: 1 for max = 0, floor(log2(max) / 8) + 1
\* otherwise, i.e. the number of base-256 digits of max
StatedWidth(max) ==
    CHOOSE k \in 1..3 : max < 256 ^ k /\ (k = 1 \/ max >= 256 ^ (k - 1))

\* C19: push(max, n) leaves the path in place and appends exactly w(max)
\* bytes, the low-order bytes of n with the most significant first;
\* pop(max) removes exactly w(max) trailing bytes; pop(max) applied to the
\* result of push(max, n) gives back the path as it was.
C19_PushPopWidth ==
    [][ /\ Len(pairs') = Len(pairs) + 1 =>
              LET pushed == Last(pairs')
                  w == StatedWidth(pushed.max)
              IN /\ Len(path') = Len(path) + w
                 /\ SubSeq(path', 1, Len(path)) = path
                 /\ \A j \in 1..w :
                       path'[Len(path) + j] = (pushed.n \div (256 ^ (w - j))) % 256
                 /\ Path_pop(path', pushed.max) = path
        /\ Len(pairs') = Len(pairs) - 1 =>
              LET w == StatedWidth(Last(pairs).max)
              IN /\ w <= Len(path)
                 /\ path' = SubSeq(path, 1, Len(path) - w)
      ]_vars

C19_Witness ==
    /\ pairs = <<[max |-> 65536, n |-> 270]>>
    /\ path = <<0, 1, 14>>

\* the first k frames are the same in every sample
SharedPrefix(k) ==
    \A i \in 1..Len(samples) :
        /\ k <= Len(samples[i])
        /\ SubSeq(samples[i], 1, k) = SubSeq(samples[1], 1, k)
\* once p leading frames are gone, the last k frames are the same in every sample
SharedSuffix(p, k) ==
    \A i \in 1..Len(samples) :
        /\ p + k <= Len(samples[i])
        /\ SubSeq(samples[i], Len(samples[i]) - k + 1, Len(samples[i]))
             = SubSeq(samples[1], Len(samples[1]) - k + 1, Len(samples[1]))
LongestSharedPrefix ==
    CHOOSE k \in 0..Len(samples[1]) : SharedPrefix(k) /\ ~SharedPrefix(k + 1)
LongestSharedSuffix(p) ==
    CHOOSE k \in 0..Len(samples[1]) : SharedSuffix(p, k) /\ ~SharedSuffix(p, k + 1)
ExampleSamples == <<<<"A", "B", "C", "D">>, <<"A", "B", "E", "D">>>>

\* C20: Tracer::trace skips the longest prefix of frames shared by all
\* samples and then the longest suffix shared by what remains of all
\* samples; the two never overlap within a sample; when trace returns, the
\* frames it inserts for a sample are the sample without that prefix and
\* suffix; for the samples [A,B,C,D] and [A,B,E,D] these are [C] and [E].
C20_TrimsSharedFrames ==
    retained # <<>> =>
        LET p == LongestSharedPrefix
            q == LongestSharedSuffix(p)
        IN /\ retained.skip_start = p
           /\ retained.skip_end = q
           /\ \A i \in 1..Len(samples) : p + q <= Len(samples[i])
           /\ retained.ok =>
                 /\ Len(retained.frames) = Len(samples)
                 /\ \A i \in 1..Len(samples) :
                       SubSeq(samples[i], 1, p) \o retained.frames[i]
                         \o SubSeq(samples[i], Len(samples[i]) - q + 1, Len(samples[i]))
                       = samples[i]
           /\ samples = ExampleSamples =>
                 retained.ok /\ retained.frames = <<<<"C">>, <<"E">>>>

C20_Witness ==
    /\ samples = ExampleSamples
    /\ retained # <<>>
    /\ retained.ok
    /\ retained.skip_start = 2 /\ retained.skip_end = 1

\* how many leading frames two stacks have in common
CommonDepth(a, b) ==
    CHOOSE k \in 0..Min(Len(a), Len(b)) :
        /\ SubSeq(a, 1, k) = SubSeq(b, 1, k)
        /\ (k = Min(Len(a), Len(b)) \/ a[k + 1] # b[k + 1])
\* the spans opened and the read made for sample i and the samples after it,
\* when a sample opens a new span for every frame below the frames it has in
\* common with the sample just before it
RECURSIVE SampledEvents(_, _, _, _)
SampledEvents(frames, o, i, base) ==
    IF i > Len(o) THEN <<>>
    ELSE LET f == frames[i]
             sh == IF i = 1 THEN 0 ELSE CommonDepth(frames[i - 1], f)
         IN [d \in 1..(Len(f) - sh) |->
                [k |-> "enter", name |-> f[sh + d], n |-> 0,
                 ctx |-> base \o SubSeq(f, 1, sh + d - 1)]]
            \o <<[k |-> "read", name |-> "", n |-> o[i].count, ctx |-> base \o f]>>
            \o SampledEvents(frames, o, i + 1, base)
TrimmedOps == Tracer_trace_trim([i \in 1..Len(ops) |-> ops[i].stack])

\* C21: the tree Tracer::trace returns holds the samples in capture order
\* under a root frame; a sample shares with the sample before it exactly the
\* nodes of their common leading frames, opens a new sibling span for every
\* frame below them, and ends in Read(count).  So consecutive samples through
\* one frame share its node, and samples through one address separated by
\* another frame or by a Read of the parent get separate sibling nodes.
C21_FrameTreeBuilt ==
    [][ (kind = "tracer" /\ trace' # trace /\ ops # <<>>) =>
            LET t == TrimmedOps
                f0 == t.frames[1][1]
            IN Chronicle(trace'.root, <<>>) =
                  <<[k |-> "enter", name |-> "root", n |-> 0, ctx |-> <<>>],
                    [k |-> "enter", name |-> f0, n |-> 0, ctx |-> <<"root">>]>>
                  \o SampledEvents(t.frames, ops, 1, <<"root", f0>>)
      ]_vars

C21_Witness ==
    /\ kind = "tracer" /\ Len(ops) = 3
    /\ ops[1].stack = <<"A", "B">> /\ ops[2].stack = <<"A", "C">>
    /\ ops[3].stack = <<"A", "B">>
    /\ trace.root =
         SpanAct([name |-> "root", actions |->
           <<SpanAct([name |-> "B", actions |->
               <<SpanAct([name |-> "B", actions |-> <<Read(ops[1].count)>>]),
                 SpanAct([name |-> "C", actions |-> <<Read(ops[2].count)>>]),
                 SpanAct([name |-> "B", actions |-> <<Read(ops[3].count)>>])>>])>>])

\* the action a viewer path leads to, and the span that holds it
RECURSIVE ActionAt(_, _), HolderOf(_, _)
ActionAt(span, p) ==
    IF Len(p) = 1 THEN span.actions[p[1] + 1]
    ELSE ActionAt(span.actions[p[1] + 1].v, Tail(p))
HolderOf(span, p) ==
    IF Len(p) = 1 THEN span ELSE HolderOf(span.actions[p[1] + 1].v, Tail(p))
\* the Read and Seek actions of a tree in depth-first order
LeafEvents(span) ==
    SelectSeq(Chronicle(SpanAct(span), <<>>), LAMBDA x : x.k # "enter")
\* the offset at which the j-th of these starts
RECURSIVE OffsetBefore(_, _)
OffsetBefore(leaves, j) ==
    IF j = 1 THEN 0
    ELSE IF leaves[j - 1].k = "seek" THEN leaves[j - 1].n
    ELSE OffsetBefore(leaves, j - 1) + leaves[j - 1].n
ReadPositions(leaves) == {j \in 1..Len(leaves) : leaves[j].k = "read"}
SpanEvents(span) ==
    SelectSeq(Chronicle(SpanAct(span), <<>>), LAMBDA x : x.k = "enter")

\* C22 as stated: the index holds one record for every Read and one for
\* every Span below the root.
C22_RecordPerReadAndSpan ==
    full # <<>> =>
        Len(full.flat) = Cardinality(ReadPositions(LeafEvents(tree)))
                           + (Len(SpanEvents(tree)) - 1)

\* C22: the index holds exactly one record for every Read, in depth-first
\* order, and none for a Span or a Seek; the record of a Read carries the
\* Read's byte range from offset accumulation (a Seek sets the offset), the
\* name of the span that holds the Read, and the Read's index path.
C22_RecordPerRead ==
    full # <<>> =>
        LET leaves == LeafEvents(tree)
            flat == full.flat
        IN /\ Len(flat) = Cardinality(ReadPositions(leaves))
           /\ \A i \in 1..Len(flat) :
                 /\ ActionAt(tree, flat[i].path).t = "Read"
                 /\ flat[i].end - flat[i].start = ActionAt(tree, flat[i].path).v
                 /\ flat[i].name = HolderOf(tree, flat[i].path).name
                 /\ \E j \in ReadPositions(leaves) :
                       /\ Cardinality({k \in ReadPositions(leaves) : k <= j}) = i
                       /\ flat[i].start = OffsetBefore(leaves, j)
           /\ \A i, j \in 1..Len(flat) : i < j => LexLess(flat[i].path, flat[j].path)

C22_Witness ==
    /\ full # <<>>
    /\ tree = [name |-> "read_stuff", actions |->
                 <<SpanAct([name |-> "read_nested_stuff",
                            actions |-> <<Read(U8), Seek(0)>>]), Read(U8)>>]
    /\ full.flat = <<[start |-> 0, end |-> 1, name |-> "read_nested_stuff", path |-> <<0, 0>>],
                     [start |-> 0, end |-> 1, name |-> "read_stuff", path |-> <<1>>]>>

\* the Reads of the loaded tree whose byte range holds the address, each with
\* the name of the innermost span around it
ReadsOn(address) ==
    LET leaves == LeafEvents(tree)
    IN {[start |-> OffsetBefore(leaves, j), name |-> Last(leaves[j].ctx)] :
           j \in {k \in ReadPositions(leaves) :
                     /\ OffsetBefore(leaves, k) <= address
                     /\ address < OffsetBefore(leaves, k) + leaves[k].n}}

\* C23: in the trace of read_stuff (Read(1), read_nested_stuff { Read(4) },
\* a Seek, Read(1)) a point query on a byte of the nested Read(4) returns a
\* record named read_nested_stuff, whatever else it returns; and in every
\* tree the records a point query returns are one per Read on that byte, each
\* named after the innermost span around its Read.
C23_QueryNamesInnermostSpan ==
    hover # <<>> =>
        /\ (tree \in ExampleTrees /\ hover.address \in U8..(U8 + U32 - 1)) =>
              \E h \in hover.hits : h.name = "read_nested_stuff"
        /\ {[start |-> h.start, name |-> h.name] : h \in hover.hits}
              = ReadsOn(hover.address)
        /\ \A h \in hover.hits :
              /\ ActionAt(tree, h.path).t = "Read"
              /\ h.name = HolderOf(tree, h.path).name

C23_Witness ==
    /\ hover # <<>>
    /\ tree \in ExampleTrees /\ tree.actions[3] = Seek(4)
    /\ hover.address = 4
    /\ {h.name : h \in hover.hits} = {"read_nested_stuff", "read_stuff"}

\* offset accumulation puts a Read or a Span of the loaded trace past the end of data
OutsideData ==
    LET nodes == AllNodes(TraceTree_new(trace))
    IN \E i \in 1..Len(nodes) :
          /\ nodes[i].t \in {"Read", "Span"}
          /\ (nodes[i].start > Len(trace.data) \/ nodes[i].end > Len(trace.data))

\* C24: when offset accumulation puts a Read or a Span of the loaded trace
\* outside data, the trace is rejected: no node tree is built from it and
\* nothing is rendered from it, so data is never sliced past its end.
C24_InconsistentTraceRejected ==
    (trace # NoTrace /\ OutsideData) =>
        /\ tui = <<>>
        /\ rendered = <<>>

\* C25: in a mirror session the underlying stream is where it was before it
\* was wrapped until the first read or seek, and after wrapping and after
\* every read or seek the cursor of the mirror is at the stream's position
\* and the mirror holds exactly the stream's contents.
C25_MirrorTracksStream ==
    (kind = "mirror" /\ Running) =>
        /\ (ReadsOf(log) = <<>> /\ SeeksOf(log) = <<>>) => spos = wrap_pos
        /\ dpos = spos
        /\ data = stream

\* C26: while the TraceStream is alive and the guards were released newest
\* first, nothing has panicked, the stack is not empty, its bottom is the
\* root span the constructor entered (the registered root_span, named
\* "root"), and the span on top has an entry in the map, so that the lookups
\* of read_action and seek_action succeed.
C26_RootStaysAtBottom ==
    (IsEngine /\ ts = "alive" /\ lifo) =>
        /\ Running
        /\ stack # <<>>
        /\ stack[1] = root_span
        /\ made[stack[1]] = "root"
        /\ guards[1].owner = "stream" /\ guards[1].id = stack[1]
        /\ \A i \in 1..Len(stack) : stack[i] \in DOMAIN spans
        /\ ret.op \in {"read", "seek"} => (ret.ok => Last(log).k = ret.op)

C26_Witness ==
    /\ IsEngine /\ ts = "alive" /\ lifo
    /\ Len(log) = 3 /\ log[2].k = "enter" /\ log[3].k = "read"
    /\ Len(log[3].ctx) = 2
    /\ Len(stack) = 1

\* C27: the Trace that Tracer::trace returns has one Read per sample and no
\* Seek; its Reads, depth first, have the byte counts of the samples in
\* capture order; these add up to the length of data, which is all the bytes
\* read so far; start_index is 0.
C27_OneReadPerSample ==
    [][ (kind = "tracer" /\ trace' # trace) =>
            LET leaves == LeafEvents(trace'.root.v)
            IN /\ Len(leaves) = Len(ops)
               /\ \A i \in 1..Len(leaves) :
                     leaves[i].k = "read" /\ leaves[i].n = ops[i].count
               /\ Sum(leaves, 1) = Len(trace'.data)
               /\ trace'.data = tracer_data
               /\ tracer_data = SubSeq(stream, wrap_pos + 1, spos)
               /\ trace'.start_index = 0
      ]_vars

C27_Witness ==
    /\ kind = "tracer" /\ trace # NoTrace
    /\ Len(ops) = 3 /\ Len(LeafEvents(trace.root.v)) = 3
    /\ Len(trace.data) = 2
    /\ ops[2].count = 0

\* C28: Tracer::trace returns for every sequence of samples recorded: a
\* TracerReader session never panics in trace().
C28_TraceNeverFails ==
    kind = "tracer" => status # "failed"

\* C29: every node TraceTree::new computes has start <= end, so that every
\* line the TUI renders shows a length end - start that did not underflow.
C29_RangesWellFormed ==
    /\ tui # <<>> =>
          LET nodes == AllNodes(tui.root)
          IN \A i \in 1..Len(nodes) : nodes[i].start <= nodes[i].end
    /\ rendered # <<>> => (rendered.ok /\ rendered.len >= 0)

\* the w bytes of n, most significant first
Encoded(n, w) == [j \in 1..w |-> (n \div (256 ^ (w - j))) % 256]
\* the identifiers as stated: the root has the empty path, child i of a span
\* with len actions has its parent's path followed by the w(len) bytes of i
RECURSIVE StatedIds(_, _), StatedIdsOf(_, _, _)
StatedIds(action, p) ==
    IF action.t = "Span" THEN <<p>> \o StatedIdsOf(action.v.actions, 1, p) ELSE <<p>>
StatedIdsOf(acts, i, p) ==
    IF i > Len(acts) THEN <<>>
    ELSE StatedIds(acts[i], p \o Encoded(i - 1, StatedWidth(Len(acts))))
         \o StatedIdsOf(acts, i + 1, p)

\* C30: TraceTree::new gives the root the empty path and every child its
\* parent's path followed by the encoding of its index; the identifiers of
\* distinct nodes differ, and the nodes map ends with exactly one entry per
\* node of the tree, each identifier leading to its own node.
C30_IdentifiersDistinct ==
    tui # <<>> =>
        LET nodes == AllNodes(tui.root)
            ids == tui.ids
        IN /\ ids = StatedIds(SpanAct(tree), <<>>)
           /\ ids[1] = <<>>
           /\ Len(ids) = Len(nodes)
           /\ \A i, j \in 1..Len(ids) : i # j => ids[i] # ids[j]
           /\ DOMAIN tui.nodes = {ids[i] : i \in 1..Len(ids)}
           /\ Cardinality(DOMAIN tui.nodes) = Len(nodes)
           /\ \A i \in 1..Len(ids) : tui.nodes[ids[i]] = nodes[i]

C30_Witness ==
    /\ tui # <<>> /\ tree \in ExampleTrees
    /\ DOMAIN tui.nodes = {<<>>, <<0>>, <<1>>, <<1, 0>>, <<2>>, <<3>>}
    /\ tui.nodes[<<1, 0>>].t = "Read" /\ tui.nodes[<<1>>].t = "Span"

====
